---- MODULE Spec2Model ----
(***************************************************************************)
(* Monoalphabetic ciphers of pwn/crypto/monoalphabetic.py: the generic     *)
(* substitution primitive, the shift / affine / atbash dictionaries and    *)
(* the frequency-based crackers.                                           *)
(*                                                                         *)
(* A text is a sequence of one-character strings, a dictionary is a        *)
(* function from symbols to symbols, an alphabet is a sequence of symbols. *)
(* Python indices are 0-based, TLA+ sequences 1-based: alphabet[i] of the  *)
(* source is alphabet[i + 1] here.                                         *)
(***************************************************************************)
EXTENDS Integers, Sequences, FiniteSets, TLC

VARIABLES
    alphabet,      \* the caller's alphabet argument
    frequencies,   \* the caller's target frequency distribution
    text,          \* the caller's text
    key,           \* the (a, b) key of the dictionary built last
    family,        \* which constructor built it: "shift", "affine", "atbash"
    dictionary,    \* the dictionary built last / selected by the cracker
    ciphertext,    \* the text handed to decrypt / crack routines
    candidates,    \* the candidate list of the crack routine that ran
    ret,           \* what the last call returned (or raised)
    pc             \* the call that ran last

vars == <<alphabet, frequencies, text, key, family, dictionary, ciphertext,
          candidates, ret, pc>>

----------------------------------------------------------------------------
(* Bounds of the explored inputs *)

MaxLen == 2
MaxKey == 2
MaxCands == 2
MaxPeak == 1

----------------------------------------------------------------------------
(* Data *)

uppercase ==
    <<"A", "B", "C", "D", "E", "F", "G", "H", "I", "J", "K", "L", "M",
      "N", "O", "P", "Q", "R", "S", "T", "U", "V", "W", "X", "Y", "Z">>

\* symbols the explored alphabets are made of: two upper-case letters and
\* one symbol outside string.uppercase
Symbols == {"A", "B", "a"}

\* the texts also hold an upper-case letter that no explored alphabet has
TextSymbols == Symbols \cup {"C"}

Range(s) == {s[i] : i \in 1..Len(s)}

SeqsUpTo(S, n) == UNION {[1..m -> S] : m \in 0..n}

\* ordered, duplicate-free sequences of symbols
Alphabets ==
    {s \in SeqsUpTo(Symbols, Cardinality(Symbols)) :
        \A i, j \in 1..Len(s) : s[i] = s[j] => i = j}

Texts == SeqsUpTo(TextSymbols, MaxLen)

EmptyDict == [c \in {} |-> c]

\* a frequency distribution is kept exact: position i has frequency
\* num[i] / den
Peaked(len, k) ==
    [num |-> [i \in 1..len |-> IF i = k THEN 3 ELSE 1],
     den |-> IF k = 0 THEN len ELSE len + 2]

Targets(len) ==
    IF len = 0 THEN {[num |-> <<>>, den |-> 1]}
    ELSE {Peaked(len, k) : k \in 0..(IF len < MaxPeak THEN len ELSE MaxPeak)}

----------------------------------------------------------------------------
(* Return values *)

Ret(kind, t, d, i, exc) ==
    [kind |-> kind, text |-> t, dict |-> d, int |-> i, exc |-> exc]

NoRet == Ret("none", <<>>, EmptyDict, 0, "")
RetNone == Ret("None", <<>>, EmptyDict, 0, "")
RetText(t) == Ret("text", t, EmptyDict, 0, "")
RetDict(d) == Ret("dict", <<>>, d, 0, "")
RetDictText(d, t) == Ret("tuple(dict,text)", t, d, 0, "")
RetIntText(i, t) == Ret("tuple(int,text)", t, EmptyDict, i, "")
Raise(exc) == Ret("raise", <<>>, EmptyDict, 0, exc)

----------------------------------------------------------------------------
(* fractions.gcd *)

RECURSIVE gcd(_, _)
gcd(a, b) == IF b = 0 THEN a ELSE gcd(b, a % b)

----------------------------------------------------------------------------
(* Generic monoalphabetic cipher *)

encrypt_substitution(plaintext, dict) ==
    [i \in 1..Len(plaintext) |->
        IF plaintext[i] \in DOMAIN dict THEN dict[plaintext[i]]
        ELSE plaintext[i]]

Values(dict) == {dict[k] : k \in DOMAIN dict}

\* the dictionary used as it is, not inverted
Inverses_none(dict) == {dict}

\* {v: k for k, v in dictionary.items()}: when two keys share a value the
\* key that survives is the one the dictionary's iteration order yields
\* last, so every choice of one key per value is a possible inverse
Inverses(dict) ==
    {inv \in [Values(dict) -> DOMAIN dict] :
        \A v \in Values(dict) : dict[inv[v]] = v}

decrypt_substitution(text_, inverse) == encrypt_substitution(text_, inverse)

----------------------------------------------------------------------------
(* Specific implementations *)

affine_dict(k, alpha) ==
    LET a == k[1]
        b == k[2]
        n == Len(alpha)
        \* a dict comprehension keeps the last value written for a key
        last(c) == CHOOSE i \in 1..n :
                      /\ alpha[i] = c
                      /\ \A j \in 1..n : alpha[j] = c => j <= i
    IN  [c \in Range(alpha) |-> alpha[((a * (last(c) - 1) + b) % n) + 1]]

shift_dict(shift, alpha) == affine_dict(<<1, shift>>, alpha)

\* a = 1 where the source has a = n - 1
atbash_key_shift(alpha) == <<1, Len(alpha) - 1>>

atbash_key(alpha) == <<Len(alpha) - 1, Len(alpha) - 1>>

atbash_dict(alpha) == affine_dict(atbash_key(alpha), alpha)

----------------------------------------------------------------------------
(* Collaborators freq.text and util.squared_differences *)

Count(text_, c) == Cardinality({i \in 1..Len(text_) : text_[i] = c})

\* relative frequency of every alphabet symbol in the text, symbols outside
\* the alphabet ignored; all zero when no alphabet symbol occurs
freq_text(text_, alpha) ==
    LET total == Cardinality({i \in 1..Len(text_) : text_[i] \in Range(alpha)})
    IN  [num |-> [i \in 1..Len(alpha) |-> Count(text_, alpha[i])],
         den |-> IF total = 0 THEN 1 ELSE total]

RECURSIVE SumSq(_, _, _)
SumSq(f, g, i) ==
    IF i = 0 THEN 0
    ELSE LET d == f.num[i] * g.den - g.num[i] * f.den
         IN  d * d + SumSq(f, g, i - 1)

\* sum of squared differences, as the exact fraction num / den
squared_differences(f, g) ==
    IF Len(f.num) # Len(g.num)
    THEN [exc |-> "LengthMismatch", num |-> 0, den |-> 1]
    ELSE [exc |-> "", num |-> SumSq(f, g, Len(f.num)),
          den |-> (f.den * g.den) * (f.den * g.den)]

DistLeq(d, e) == d.num * e.den <= e.num * d.den
DistEq(d, e) == d.num * e.den = e.num * d.den

----------------------------------------------------------------------------
(* Crackers *)

\* the last position holding the minimum, where the source takes the first
guess_index_last(distances) ==
    LET least == CHOOSE d \in Range(distances) :
                    \A e \in Range(distances) : DistLeq(d, e)
    IN  CHOOSE i \in 1..Len(distances) :
           /\ DistEq(distances[i], least)
           /\ \A j \in (i + 1)..Len(distances) : ~DistEq(distances[j], least)

\* distances.index(min(distances)): the first position holding the minimum
guess_index(distances) ==
    LET least == CHOOSE d \in Range(distances) :
                    \A e \in Range(distances) : DistLeq(d, e)
    IN  CHOOSE i \in 1..Len(distances) :
           /\ DistEq(distances[i], least)
           /\ \A j \in 1..(i - 1) : ~DistEq(distances[j], least)

trial_distances(ciphertext_, cands, freqs, alpha) ==
    [i \in 1..Len(cands) |->
        squared_differences(
            freq_text(encrypt_substitution(ciphertext_, cands[i]), alpha),
            freqs)]

generic_crack(ciphertext_, cands, freqs, alpha) ==
    LET distances == trial_distances(ciphertext_, cands, freqs, alpha)
    IN  IF \E i \in 1..Len(cands) : distances[i].exc # ""
        THEN Raise("LengthMismatch")
        ELSE IF Len(cands) = 0
        THEN Raise("ValueError")          \* min() of an empty list
        ELSE LET guess == guess_index(distances)
             IN  RetDictText(cands[guess],
                             encrypt_substitution(ciphertext_, cands[guess]))

\* range(1, n + 1) where the source has range(n)
shift_candidates_from_one(alpha) ==
    [i \in 1..Len(alpha) |-> affine_dict(<<1, i>>, alpha)]

shift_candidates(alpha) ==
    [i \in 1..Len(alpha) |-> shift_dict(i - 1, alpha)]

\* a forward lookup, dictionary[alphabet[0]], where the source looks for the
\* key whose value is alphabet[0]
shift_keys_forward(dict, alpha) == {dict[alpha[1]]}

\* the keys the generator of line 75 can yield first: those whose value is
\* alphabet[0]
shift_keys(dict, alpha) == {k \in DOMAIN dict : dict[k] = alpha[1]}

\* alphabet.index(shift)
index(alpha, c) ==
    (CHOOSE i \in 1..Len(alpha) :
        /\ alpha[i] = c
        /\ \A j \in 1..(i - 1) : alpha[j] # c) - 1

\* crack_shift once generic_crack returned r and the generator yielded shift
crack_shift_result(r, shift, alpha) == RetIntText(index(alpha, shift), r.text)

invertible(n) == SelectSeq([i \in 1..n |-> i - 1], LAMBDA i : gcd(i, n) = 1)

affine_keys(n) ==
    LET inv == invertible(n)
    IN  [j \in 1..(Len(inv) * n) |->
            <<inv[((j - 1) \div n) + 1], (j - 1) % n>>]

\* affine_dict(k): the alphabet argument is left to its default
affine_candidates(alpha) ==
    LET keys == affine_keys(Len(alpha))
    IN  [j \in 1..Len(keys) |-> affine_dict(keys[j], uppercase)]

\* generic_crack(ciphertext, candidates, frequencies): alphabet defaulted too
crack_affine(ciphertext_, alpha, freqs) ==
    generic_crack(ciphertext_, affine_candidates(alpha), freqs, uppercase)

crack_substitution(ciphertext_, freqs) == RetNone

----------------------------------------------------------------------------
(* The calls a client makes *)

Keys == (0..MaxKey) \X (0..MaxKey)

\* the candidate lists handed to generic_crack directly: dictionaries over
\* the caller's alphabet, bijective or not, in any order, repeats allowed
CandidatePool(alpha) ==
    {affine_dict(k, alpha) : k \in {<<1, 0>>, <<1, 1>>, <<0, 0>>}}

CandidateLists(alpha) == SeqsUpTo(CandidatePool(alpha), MaxCands)

Built == {"shift_dict", "affine_dict", "atbash_dict"}

\* the targets a caller passes: one over its own alphabet, or the table of
\* the 26 upper-case letters (the default, freq.english, has that length)
CallerTargets(alpha) == Targets(Len(alpha)) \cup {Peaked(Len(uppercase), 1)}

NoTarget == [num |-> <<>>, den |-> 1]

InitWith(targets) ==
    /\ alphabet \in Alphabets
    /\ frequencies \in targets[alphabet]
    /\ text \in Texts
    /\ key = <<0, 0>>
    /\ family = "none"
    /\ dictionary = EmptyDict
    /\ ciphertext = <<>>
    /\ candidates = <<>>
    /\ ret = NoRet
    /\ pc = "start"

ShiftDict(shift) ==
    /\ pc = "start"
    /\ key' = <<1, shift>>
    /\ family' = "shift"
    /\ dictionary' = shift_dict(shift, alphabet)
    /\ ret' = RetDict(dictionary')
    /\ pc' = "shift_dict"
    /\ UNCHANGED <<alphabet, frequencies, text, ciphertext, candidates>>

AffineDict(k) ==
    /\ pc = "start"
    /\ key' = k
    /\ family' = "affine"
    /\ dictionary' = affine_dict(k, alphabet)
    /\ ret' = RetDict(dictionary')
    /\ pc' = "affine_dict"
    /\ UNCHANGED <<alphabet, frequencies, text, ciphertext, candidates>>

AtbashDict ==
    /\ pc = "start"
    /\ key' = atbash_key(alphabet)
    /\ family' = "atbash"
    /\ dictionary' = atbash_dict(alphabet)
    /\ ret' = RetDict(dictionary')
    /\ pc' = "atbash_dict"
    /\ UNCHANGED <<alphabet, frequencies, text, ciphertext, candidates>>

\* encrypt_substitution(text, dictionary) with the dictionary just built
EncryptSubstitution ==
    /\ pc \in Built
    /\ ciphertext' = encrypt_substitution(text, dictionary)
    /\ ret' = RetText(ciphertext')
    /\ pc' = "encrypt_substitution"
    /\ UNCHANGED <<alphabet, frequencies, text, key, family, dictionary,
                   candidates>>

EncryptShift(shift) ==
    /\ pc = "start"
    /\ key' = <<1, shift>>
    /\ family' = "shift"
    /\ dictionary' = shift_dict(shift, alphabet)
    /\ ciphertext' = encrypt_substitution(text, dictionary')
    /\ ret' = RetText(ciphertext')
    /\ pc' = "encrypt_shift"
    /\ UNCHANGED <<alphabet, frequencies, text, candidates>>

\* a second encrypt_substitution, of the ciphertext, with the same dictionary
EncryptAgain ==
    /\ pc = "encrypt_substitution"
    /\ ret' = RetText(encrypt_substitution(ciphertext, dictionary))
    /\ pc' = "encrypt_again"
    /\ UNCHANGED <<alphabet, frequencies, text, key, family, dictionary,
                   ciphertext, candidates>>

DecryptSubstitution ==
    /\ pc = "encrypt_substitution"
    /\ \E inverse \in Inverses(dictionary) :
          ret' = RetText(decrypt_substitution(ciphertext, inverse))
    /\ pc' = "decrypt_substitution"
    /\ UNCHANGED <<alphabet, frequencies, text, key, family, dictionary,
                   ciphertext, candidates>>

DecryptAffine ==
    /\ pc = "encrypt_substitution"
    /\ \E inverse \in Inverses(affine_dict(key, alphabet)) :
          ret' = RetText(decrypt_substitution(ciphertext, inverse))
    /\ pc' = "decrypt_affine"
    /\ UNCHANGED <<alphabet, frequencies, text, key, family, dictionary,
                   ciphertext, candidates>>

CrackSubstitution ==
    /\ pc = "encrypt_shift"
    /\ ret' = crack_substitution(ciphertext, frequencies)
    /\ pc' = "crack_substitution"
    /\ UNCHANGED <<alphabet, frequencies, text, key, family, dictionary,
                   ciphertext, candidates>>

\* generic_crack called directly, on the caller's text
GenericCrack(cands) ==
    /\ pc = "start"
    /\ ciphertext' = text
    /\ candidates' = cands
    /\ ret' = generic_crack(text, cands, frequencies, alphabet)
    /\ dictionary' = ret'.dict
    /\ pc' = "generic_crack"
    /\ UNCHANGED <<alphabet, frequencies, text, key, family>>

CrackShift ==
    /\ pc = "encrypt_shift"
    /\ candidates' = shift_candidates(alphabet)
    /\ LET r == generic_crack(ciphertext, candidates', frequencies, alphabet)
       IN  /\ dictionary' = r.dict
           /\ IF r.kind = "raise"
              THEN ret' = r
              ELSE IF shift_keys(r.dict, alphabet) = {}
              THEN ret' = Raise("StopIteration")
              ELSE \E shift \in shift_keys(r.dict, alphabet) :
                      ret' = crack_shift_result(r, shift, alphabet)
    /\ pc' = "crack_shift"
    /\ UNCHANGED <<alphabet, frequencies, text, key, family, ciphertext>>

CrackAffine ==
    /\ pc = "encrypt_shift"
    /\ candidates' = affine_candidates(alphabet)
    /\ ret' = crack_affine(ciphertext, alphabet, frequencies)
    /\ dictionary' = ret'.dict
    /\ pc' = "crack_affine"
    /\ UNCHANGED <<alphabet, frequencies, text, key, family, ciphertext>>

\* the cipher calls: build a dictionary, encrypt with it, then decrypt or
\* encrypt once more
InitCipher == InitWith([alpha \in Alphabets |-> {NoTarget}])

NextCipher ==
    \/ \E shift \in 0..MaxKey : ShiftDict(shift)
    \/ \E k \in Keys : AffineDict(k)
    \/ AtbashDict
    \/ EncryptSubstitution
    \/ EncryptAgain
    \/ DecryptSubstitution
    \/ DecryptAffine

SpecCipher == InitCipher /\ [][NextCipher]_vars

\* the cracker calls, on a text of the caller's or on a shift ciphertext
InitCrack == InitWith([alpha \in Alphabets |-> CallerTargets(alpha)])

NextCrack ==
    \/ \E shift \in 0..MaxKey : EncryptShift(shift)
    \/ CrackSubstitution
    \/ \E cands \in CandidateLists(alphabet) : GenericCrack(cands)
    \/ CrackShift
    \/ CrackAffine

SpecCrack == InitCrack /\ [][NextCrack]_vars

----------------------------------------------------------------------------
(* Vocabulary of the properties *)

n_ == Len(alphabet)

\* the distances generic_crack compared in the call that ran last
ScoredOver == IF pc = "crack_affine" THEN uppercase ELSE alphabet

Distances == trial_distances(ciphertext, candidates, frequencies, ScoredOver)

\* the target has one entry per symbol of the alphabet the trials are
\* scored over, so the scorer accepts it
Comparable == Len(frequencies.num) = Len(ScoredOver)

Bijective(dict, alpha) ==
    /\ DOMAIN dict = Range(alpha)
    /\ Values(dict) = Range(alpha)

\* the mapping alphabet[i] -> alphabet[(a * i + b) mod n] of the key (a, b)
AffineMapping(a, b, alpha) ==
    [c \in Range(alpha) |->
        alpha[((a * ((CHOOSE i \in 1..Len(alpha) : alpha[i] = c) - 1) + b)
               % Len(alpha)) + 1]]

Coprime(a, n) == \E x \in 0..n : (a * x) % n = 1 % n

phi(n) == Cardinality({a \in 0..(n - 1) : Coprime(a, n)})

Distinct(seq) == \A i, j \in 1..Len(seq) : seq[i] = seq[j] => i = j

\* m2 undoes m1 on every text
Undoes(m2, m1) ==
    \A t \in Texts :
        encrypt_substitution(encrypt_substitution(t, m1), m2) = t

----------------------------------------------------------------------------
(* C1: generic_crack, given a non-empty candidate list (and a target the
   scorer accepts), returns the pair (c, encrypt_substitution(ciphertext, c))
   where c is the candidate of minimum distance, the first one in the list
   when several share the minimum. *)
C1_StableArgmin ==
    (pc = "generic_crack" /\ Len(candidates) >= 1 /\ Comparable) =>
        \E g \in 1..Len(candidates) :
            /\ \A j \in 1..Len(candidates) :
                  DistLeq(Distances[g], Distances[j])
            /\ \A j \in 1..(g - 1) :
                  ~DistLeq(Distances[j], Distances[g])
            /\ ret = RetDictText(candidates[g],
                        encrypt_substitution(ciphertext, candidates[g]))

\* two different candidates tie on a non-empty text and the first is returned
C1_Witness ==
    /\ pc = "generic_crack"
    /\ Comparable
    /\ Len(candidates) = 2
    /\ candidates[1] # candidates[2]
    /\ Len(ciphertext) >= 1
    /\ encrypt_substitution(ciphertext, candidates[1])
         # encrypt_substitution(ciphertext, candidates[2])
    /\ DistEq(Distances[1], Distances[2])
    /\ ret.kind = "tuple(dict,text)"
    /\ ret.dict = candidates[1]

(* C2: over a duplicate-free alphabet of length n >= 1 crack_shift returns
   (k, p) where k is the index of the symbol the winning mapping sends to
   alphabet[0] and encrypting p with shift k gives the ciphertext back; when
   the ciphertext was made with a shift s in [0, n) and the winner is the
   mapping that undoes that shift, the result is (s, the original text). *)
C2_ShiftRecovered ==
    (pc = "crack_shift" /\ n_ >= 1 /\ Comparable) =>
        /\ ret.kind = "tuple(int,text)"
        /\ ret.int \in 0..(n_ - 1)
        /\ dictionary[alphabet[ret.int + 1]] = alphabet[1]
        /\ encrypt_substitution(ret.text, shift_dict(ret.int, alphabet))
             = ciphertext
        /\ (key[2] < n_ /\ Undoes(dictionary, shift_dict(key[2], alphabet)))
             => (ret.int = key[2] /\ ret.text = text)

\* a shift by 1 over three symbols is cracked: the winner is the shift by 2
C2_Witness ==
    /\ pc = "crack_shift"
    /\ Comparable
    /\ n_ = 3
    /\ key = <<1, 1>>
    /\ \E i \in 1..Len(text) : text[i] \in Range(alphabet)
    /\ dictionary = shift_dict(2, alphabet)
    /\ ret = RetIntText(1, text)

(* C3: crack_affine returns only the recovered text, not a (mapping, text)
   pair and not a key. *)
C3_ReturnsOnlyText ==
    (pc = "crack_affine" /\ ret.kind # "raise") => ret.kind = "text"

(* C4: affine_dict fails with InvalidKey if and only if gcd(a, len(A)) # 1,
   so no non-bijective affine mapping is ever returned. *)
C4_InvalidKeyGuard ==
    pc = "affine_dict" =>
        /\ (ret.kind = "raise" /\ ret.exc = "InvalidKey")
             <=> gcd(key[1], n_) # 1
        /\ ret.kind = "dict" => Bijective(ret.dict, alphabet)

(* C5: for a bijective mapping m over the alphabet and any text t (symbols
   outside the mapping pass through), decrypt_substitution(
   encrypt_substitution(t, m), m) = t. *)
C5_RoundTrip ==
    (pc = "decrypt_substitution" /\ Bijective(dictionary, alphabet)) =>
        ret = RetText(text)

\* a permutation of three symbols that is not its own inverse, on a text with
\* a symbol of the alphabet and a symbol outside it
C5_Witness ==
    /\ pc = "decrypt_substitution"
    /\ n_ = 3
    /\ Bijective(dictionary, alphabet)
    /\ ~Undoes(dictionary, dictionary)
    /\ \E i \in 1..Len(text) : text[i] \in Range(alphabet)
    /\ \E i \in 1..Len(text) : text[i] \notin Range(alphabet)
    /\ ciphertext # text
    /\ ret = RetText(text)

(* C6: the candidate list of crack_shift has exactly n distinct mappings, one
   per shift 0..n-1, and the candidate list of crack_affine has exactly
   phi(n) * n distinct mappings, one per (a, b) with gcd(a, n) = 1 and
   0 <= b < n, each sending A[i] to A[(a * i + b) mod n]. *)
C6_KeySpaceComplete ==
    /\ pc = "crack_shift" =>
          /\ Len(candidates) = n_
          /\ Distinct(candidates)
          /\ \A s \in 0..(n_ - 1) :
                candidates[s + 1] = AffineMapping(1, s, alphabet)
    /\ pc = "crack_affine" =>
          /\ Len(candidates) = phi(n_) * n_
          /\ Distinct(candidates)
          /\ \A a, b \in 0..(n_ - 1) :
                Coprime(a, n_) =>
                    \E j \in 1..Len(candidates) :
                        candidates[j] = AffineMapping(a, b, alphabet)

(* C7: crack_substitution fails explicitly with an Unsupported error; it
   never returns normally with an empty / none result. *)
C7_Unsupported ==
    pc = "crack_substitution" =>
        (ret.kind = "raise" /\ ret.exc = "Unsupported")

(* C8: on an empty ciphertext every trial text is empty and all distances
   are equal, so each crack routine that has a candidate (and a target the
   scorer accepts) selects the first-generated candidate and returns an
   empty plaintext; crack_shift over a non-empty alphabet returns (0, ""). *)
C8_EmptyCiphertext ==
    (/\ pc \in {"generic_crack", "crack_shift", "crack_affine"}
     /\ ciphertext = <<>>
     /\ Len(candidates) >= 1
     /\ Comparable) =>
        /\ \A i, j \in 1..Len(candidates) : DistEq(Distances[i], Distances[j])
        /\ dictionary = candidates[1]
        /\ ret.kind # "raise"
        /\ ret.text = <<>>
        /\ pc # "crack_shift" => ret.dict = candidates[1]
        /\ pc = "crack_shift" => ret = RetIntText(0, <<>>)

\* crack_shift on the empty ciphertext, over three symbols
C8_Witness ==
    /\ pc = "crack_shift"
    /\ ciphertext = <<>>
    /\ n_ = 3
    /\ Comparable
    /\ ret = RetIntText(0, <<>>)

(* C9: Atbash is self-inverse: over a duplicate-free alphabet of length
   n >= 1 the atbash dictionary sends A[i] to A[n-1-i], and encrypting a text
   twice with it gives the text back. *)
C9_AtbashSelfInverse ==
    (pc = "encrypt_again" /\ family = "atbash" /\ n_ >= 1) =>
        /\ \A i \in 1..n_ : dictionary[alphabet[i]] = alphabet[n_ + 1 - i]
        /\ ret = RetText(text)

\* three symbols reversed: the ciphertext differs from the text
C9_Witness ==
    /\ pc = "encrypt_again"
    /\ family = "atbash"
    /\ n_ = 3
    /\ Len(text) = 2
    /\ ciphertext # text
    /\ ret = RetText(text)

(* C10: the candidate lists are closed under inversion: for every valid key
   (shift s in [0, n); affine (a, b) with gcd(a, n) = 1) the list built by
   crack_shift / crack_affine holds a mapping that undoes the key's mapping
   on every text. *)
C10_ClosedUnderInversion ==
    /\ (pc = "crack_shift" /\ n_ >= 1) =>
          \A s \in 0..(n_ - 1) :
              \E j \in 1..Len(candidates) :
                  Undoes(candidates[j], shift_dict(s, alphabet))
    /\ (pc = "crack_affine" /\ n_ >= 1) =>
          \A a, b \in 0..(n_ - 1) :
              gcd(a, n_) = 1 =>
                  \E j \in 1..Len(candidates) :
                      Undoes(candidates[j], affine_dict(<<a, b>>, alphabet))

====
